---------------------------- MODULE Spec2Model ----------------------------
(***************************************************************************)
(* Model of the contract action adapter of AuctionAgent.py: the three     *)
(* tool functions start_nft_auction, bid_on_nft and finalize_nft_auction,  *)
(* the wallet capability they call, and the Python arithmetic and string   *)
(* formatting they rely on (float multiplication, int(), str(), repr()).   *)
(***************************************************************************)
EXTENDS Integers, Sequences, FiniteSets, TLC

(***************************************************************************)
(* Unbounded naturals.  Python's int is unbounded and a double's           *)
(* significand has 53 bits, so numbers are kept as little-endian sequences *)
(* of limbs in base 2^15, without high zero limbs; <<>> is zero.           *)
(***************************************************************************)
Base == 2 ^ 15

RECURSIVE SmallBitLen(_)
SmallBitLen(n) == IF n = 0 THEN 0 ELSE 1 + SmallBitLen(n \div 2)

LimbBits == SmallBitLen(Base - 1)

Max(a, b) == IF a >= b THEN a ELSE b

RECURSIVE Norm(_)
Norm(a) ==
    IF a = <<>> THEN <<>>
    ELSE IF a[Len(a)] = 0 THEN Norm(SubSeq(a, 1, Len(a) - 1))
    ELSE a

RECURSIVE BFromInt(_)
BFromInt(n) == IF n = 0 THEN <<>> ELSE <<n % Base>> \o BFromInt(n \div Base)

RECURSIVE AddC(_, _, _)
AddC(a, b, c) ==
    IF a = <<>> /\ b = <<>> THEN (IF c = 0 THEN <<>> ELSE <<c>>)
    ELSE LET x == IF a = <<>> THEN 0 ELSE Head(a)
             y == IF b = <<>> THEN 0 ELSE Head(b)
             s == x + y + c
         IN  <<s % Base>> \o AddC(IF a = <<>> THEN <<>> ELSE Tail(a),
                                  IF b = <<>> THEN <<>> ELSE Tail(b),
                                  s \div Base)

BAdd(a, b) == AddC(a, b, 0)

\* a - b for a >= b, limb by limb with borrow
RECURSIVE SubC(_, _, _)
SubC(a, b, c) ==
    IF a = <<>> THEN <<>>
    ELSE LET y == IF b = <<>> THEN 0 ELSE Head(b)
             d == Head(a) - y - c
         IN  <<d % Base>> \o SubC(Tail(a),
                                  IF b = <<>> THEN <<>> ELSE Tail(b),
                                  IF d < 0 THEN 1 ELSE 0)

BSub(a, b) == Norm(SubC(a, b, 0))

\* -1, 0, 1 as a < b, a = b, a > b
RECURSIVE CmpFrom(_, _, _)
CmpFrom(a, b, i) ==
    IF i = 0 THEN 0
    ELSE IF a[i] < b[i] THEN -1
    ELSE IF a[i] > b[i] THEN 1
    ELSE CmpFrom(a, b, i - 1)

BCmp(a, b) ==
    IF Len(a) < Len(b) THEN -1
    ELSE IF Len(a) > Len(b) THEN 1
    ELSE CmpFrom(a, b, Len(a))

RECURSIVE MulSmallC(_, _, _)
MulSmallC(a, k, c) ==
    IF a = <<>> THEN (IF c = 0 THEN <<>> ELSE <<c>>)
    ELSE LET s == Head(a) * k + c
         IN  <<s % Base>> \o MulSmallC(Tail(a), k, s \div Base)

\* a * k for 0 <= k < Base
BMulSmall(a, k) == IF k = 0 THEN <<>> ELSE MulSmallC(a, k, 0)

RECURSIVE BMul(_, _)
BMul(a, b) ==
    IF b = <<>> \/ a = <<>> THEN <<>>
    ELSE LET rest == BMul(a, Tail(b))
         IN  BAdd(BMulSmall(a, Head(b)),
                  IF rest = <<>> THEN <<>> ELSE <<0>> \o rest)

\* a divided by k, 0 < k <= Base: the quotient's limbs from the top, and the remainder
RECURSIVE DivSmallFrom(_, _, _, _)
DivSmallFrom(a, k, i, r) ==
    IF i = 0 THEN [q |-> <<>>, r |-> r]
    ELSE LET cur  == r * Base + a[i]
             rest == DivSmallFrom(a, k, i - 1, cur % k)
         IN  [q |-> rest.q \o <<cur \div k>>, r |-> rest.r]

BDivSmall(a, k) ==
    LET d == DivSmallFrom(a, k, Len(a), 0)
    IN  [q |-> Norm(d.q), r |-> d.r]

Zeros(n) == [i \in 1..n |-> 0]

\* a * 2^n
BShl(a, n) ==
    IF a = <<>> THEN <<>>
    ELSE Zeros(n \div LimbBits) \o BMulSmall(a, 2 ^ (n % LimbBits))

\* floor(a / 2^n)
BShr(a, n) ==
    IF Len(a) <= n \div LimbBits THEN <<>>
    ELSE BDivSmall(SubSeq(a, n \div LimbBits + 1, Len(a)), 2 ^ (n % LimbBits)).q

BitLen(a) ==
    IF a = <<>> THEN 0 ELSE LimbBits * (Len(a) - 1) + SmallBitLen(a[Len(a)])

BIsOdd(a) == a # <<>> /\ a[1] % 2 = 1

BOne == <<1>>

RECURSIVE BPow10(_)
BPow10(n) ==
    IF n = 0 THEN BOne
    ELSE IF n >= 4 THEN BMulSmall(BPow10(n - 4), 10000)
    ELSE BMulSmall(BPow10(n - 1), 10)

\* floor(a / 10^n), and whether anything was cut off
RECURSIVE BDivPow10(_, _)
BDivPow10(a, n) ==
    IF n = 0 THEN [q |-> a, inexact |-> FALSE]
    ELSE LET step == IF n >= 4 THEN 4 ELSE 1
             d    == BDivSmall(a, 10 ^ step)
             rest == BDivPow10(d.q, n - step)
         IN  [q |-> rest.q, inexact |-> rest.inexact \/ d.r # 0]

\* a / 2^s rounded to the nearest integer, ties to even (s > 0); a * 2^-s for s <= 0
RoundUp(q, c) == IF c > 0 \/ (c = 0 /\ BIsOdd(q)) THEN BAdd(q, BOne) ELSE q

\* q = floor(a / 2^s): the remainder a - q * 2^s against the half 2^(s-1)
RoundQuotient(a, s, q) == RoundUp(q, BCmp(BSub(a, BShl(q, s)), BShl(BOne, s - 1)))

RoundShift(a, s) == IF s <= 0 THEN BShl(a, -s) ELSE RoundQuotient(a, s, BShr(a, s))


(***************************************************************************)
(* Python floats: IEEE 754 binary64.  A finite float is                    *)
(* (-1)^neg * m * 2^e, with 2^52 <= m < 2^53 when normal, e = MinExp and   *)
(* m < 2^52 when subnormal, and m = 0, e = 0 for zero.                     *)
(***************************************************************************)
Precision == 53

MinExp == -1074

MaxExp == 971

FInf(neg) == [cls |-> "inf", neg |-> neg, m |-> <<>>, e |-> 0]

FNaN == [cls |-> "nan", neg |-> FALSE, m |-> <<>>, e |-> 0]

FZero(neg) == [cls |-> "fin", neg |-> neg, m |-> <<>>, e |-> 0]

\* the float nearest to (-1)^neg * p * 2^e, ties to even; infinite on overflow
Pack(neg, m, e) ==
    IF m = <<>> THEN FZero(neg)
    ELSE IF e > MaxExp THEN FInf(neg)
    ELSE [cls |-> "fin", neg |-> neg, m |-> m, e |-> e]

\* a significand that rounding carried to 2^53 is halved
Renormalize(neg, m, e) ==
    IF BitLen(m) > Precision THEN Pack(neg, BShr(m, 1), e + 1) ELSE Pack(neg, m, e)

\* s low bits are rounded away: to 53 bits, fewer for a subnormal
RoundAt(neg, p, e, s) == Renormalize(neg, RoundShift(p, s), e + s)

RoundToDouble(neg, p, e) ==
    IF p = <<>> THEN FZero(neg)
    ELSE RoundAt(neg, p, e, Max(BitLen(p) - Precision, MinExp - e))

\* float(n) for a Python int n >= 0, as float * int converts its int operand
IntToFloat(n) == RoundToDouble(FALSE, n, 0)

\* x * y of two floats
FMul(x, y) ==
    LET neg == (x.neg /\ ~y.neg) \/ (~x.neg /\ y.neg)
    IN  IF x.cls = "nan" \/ y.cls = "nan" THEN FNaN
        ELSE IF x.cls = "inf" \/ y.cls = "inf"
             THEN (IF (x.cls = "fin" /\ x.m = <<>>) \/ (y.cls = "fin" /\ y.m = <<>>)
                   THEN FNaN ELSE FInf(neg))
        ELSE RoundToDouble(neg, BMul(x.m, y.m), x.e + y.e)

\* A decimal literal (-1)^neg * d * 10^k, d a natural: the correctly rounded
\* float it denotes, as Python reads a float literal or float("...").
\* For k < 0 the quotient d * 2^t / 10^-k is cut with at least two bits more than
\* the significand holds, and one more bit tells whether the cut was exact.
Sticky(qr) == BAdd(BShl(qr.q, 1), IF qr.inexact THEN BOne ELSE <<>>)

ParseFraction(neg, d, k, t) ==
    RoundToDouble(neg, Sticky(BDivPow10(BShl(d, t), -k)), -t - 1)

ParseFloat(neg, d, k) ==
    IF k >= 0 THEN RoundToDouble(neg, BMul(d, BPow10(k)), 0)
    ELSE ParseFraction(neg, d, k, Precision + 2 + 4 * (-k))

\* int(x) of a finite float: truncation toward zero
Signed(neg, mag) == [neg |-> neg /\ mag # <<>>, mag |-> mag]

Trunc(x) == Signed(x.neg, IF x.e >= 0 THEN BShl(x.m, x.e) ELSE BShr(x.m, -x.e))

\* Strings are sequences of characters.
\* "cannot convert float NaN to integer" (ValueError)
NaNToIntMsg ==
    <<"c", "a", "n", "n", "o", "t", " ", "c", "o", "n", "v", "e", "r", "t", " ", "f", "l", "o", "a", "t", " ", "N", "a", "N", " ", "t", "o", " ", "i", "n", "t", "e", "g", "e", "r">>

\* "cannot convert float infinity to integer" (OverflowError)
InfToIntMsg ==
    <<"c", "a", "n", "n", "o", "t", " ", "c", "o", "n", "v", "e", "r", "t", " ", "f", "l", "o", "a", "t", " ", "i", "n", "f", "i", "n", "i", "t", "y", " ", "t", "o", " ", "i", "n", "t", "e", "g", "e", "r">>

\* int(x): [ok, value] or [~ok, exception message]
PyInt(x) ==
    IF x.cls = "nan" THEN [ok |-> FALSE, msg |-> NaNToIntMsg]
    ELSE IF x.cls = "inf" THEN [ok |-> FALSE, msg |-> InfToIntMsg]
    ELSE [ok |-> TRUE, value |-> Trunc(x)]


(***************************************************************************)
(* str() of an int and repr() of a float, which is what an f-string field  *)
(* without a format specification produces.                                *)
(***************************************************************************)
DigitChar == <<"0", "1", "2", "3", "4", "5", "6", "7", "8", "9">>

RECURSIVE NatStr(_)
NatStr(n) ==
    IF n < 10 THEN <<DigitChar[n + 1]>>
    ELSE NatStr(n \div 10) \o <<DigitChar[(n % 10) + 1]>>

\* str(n) of a Python int
IntStr(n) == IF n < 0 THEN <<"-">> \o NatStr(-n) ELSE NatStr(n)

\* the decimal digits of a natural, most significant first
RECURSIVE BDigits(_)
BDigits(a) ==
    IF a = <<>> THEN <<>>
    ELSE LET d == BDivSmall(a, 10) IN BDigits(d.q) \o <<d.r>>

RECURSIVE StripZeros(_)
StripZeros(ds) ==
    IF ds # <<>> /\ ds[Len(ds)] = 0 THEN StripZeros(SubSeq(ds, 1, Len(ds) - 1))
    ELSE ds

\* |x| compared with 10^k, for finite nonzero x
Cmp10(x, k) ==
    BCmp(BShl(BMul(x.m, BPow10(Max(-k, 0))), Max(x.e, 0)),
         BShl(BPow10(Max(k, 0)), Max(-x.e, 0)))

RECURSIVE DecPtFrom(_, _)
DecPtFrom(x, k) == IF Cmp10(x, k) < 0 THEN k ELSE DecPtFrom(x, k + 1)

\* the k with 10^(k-1) <= |x| < 10^k
DecPt(x) == DecPtFrom(x, ((BitLen(x.m) + x.e - 1) * 30103) \div 100000 - 1)

\* floor(2 * |x| * 10^(n-k)), and whether that is exact
ShiftedOut(d10, sh, q) == [q |-> q, inexact |-> d10.inexact \/ BShl(q, sh) # d10.q]

ShiftOut(d10, sh) == ShiftedOut(d10, sh, BShr(d10.q, sh))

Scaled2(x, n, k) ==
    ShiftOut(BDivPow10(BShl(BMul(x.m, BPow10(Max(n - k, 0))), Max(x.e + 1, 0)),
                       Max(k - n, 0)),
             Max(-(x.e + 1), 0))

\* The n-digit decimals around x: lo = floor(|x| * 10^(n-k)) and lo + 1.
Lo(x, k, n) == BShr(Scaled2(x, n, k).q, 1)

\* whether the decimal d * 10^(k-n) reads back as x
ReadsBack(x, k, n, d) == d # <<>> /\ ParseFloat(x.neg, d, k - n) = x

RoundTripsAround(x, k, n, lo) ==
    ReadsBack(x, k, n, lo) \/ ReadsBack(x, k, n, BAdd(lo, BOne))

RoundTrips(x, k, n) == RoundTripsAround(x, k, n, Lo(x, k, n))

\* ShortestLen of a formatter that always writes 17 significant digits ('%.17g')
ShortestLenSeventeen(x, k) == 17

\* The fewest digits that read back as x; 17 always do.
ShortestLen(x, k) ==
    CHOOSE n \in 1..17 : RoundTrips(x, k, n) /\ \A j \in 1..(n - 1) : ~RoundTrips(x, k, j)

ShortestDigits(k, n, ds) == [digits |-> StripZeros(ds), decpt |-> k + (Len(ds) - n)]

\* up: the upper decimal is the nearer one (a tie goes to the even one)
ShortestTry(k, n, lo, hi, up, okLo, okHi) ==
    IF okLo /\ okHi THEN ShortestDigits(k, n, BDigits(IF up THEN hi ELSE lo))
    ELSE IF okLo THEN ShortestDigits(k, n, BDigits(lo))
    ELSE ShortestDigits(k, n, BDigits(hi))

ShortestPick(x, k, n, lo, hi, up) ==
    ShortestTry(k, n, lo, hi, up, ReadsBack(x, k, n, lo), ReadsBack(x, k, n, hi))

ShortestAround(x, k, n, s2, lo) ==
    ShortestPick(x, k, n, lo, BAdd(lo, BOne),
                 BIsOdd(s2.q) /\ (s2.inexact \/ BIsOdd(lo)))

ShortestAt(x, k, n, s2) == ShortestAround(x, k, n, s2, BShr(s2.q, 1))

ShortestWith(x, k, n) == ShortestAt(x, k, n, Scaled2(x, n, k))

ShortestFrom(x, k) == ShortestWith(x, k, ShortestLen(x, k))

\* The shortest decimal that reads back as x, and of those the nearest to x:
\* its digits (no trailing zeros) and decimal point, value 0.d1d2... * 10^decpt.
Shortest(x) == ShortestFrom(x, DecPt(x))

DigitStr(ds) == [i \in 1..Len(ds) |-> DigitChar[ds[i] + 1]]

ZeroStr(n) == [i \in 1..n |-> "0"]

\* float_repr_style 'short', format code 'r': exponent form when
\* decpt <= -4 or decpt > 16, else fixed with at least one fractional digit
ReprExponent(x10) ==
    <<"e", IF x10 < 0 THEN "-" ELSE "+">>
    \o (IF x10 > -10 /\ x10 < 10 THEN <<"0">> ELSE <<>>)
    \o NatStr(IF x10 < 0 THEN -x10 ELSE x10)

ReprDigits(ds, n, decpt) ==
    IF decpt <= -4 \/ decpt > 16
    THEN <<ds[1]>> \o (IF n > 1 THEN <<".">> \o SubSeq(ds, 2, n) ELSE <<>>)
         \o ReprExponent(decpt - 1)
    ELSE IF decpt <= 0 THEN <<"0", ".">> \o ZeroStr(-decpt) \o ds
    ELSE IF decpt >= n THEN ds \o ZeroStr(decpt - n) \o <<".", "0">>
    ELSE SubSeq(ds, 1, decpt) \o <<".">> \o SubSeq(ds, decpt + 1, n)

ReprFinite(sd) == ReprDigits(DigitStr(sd.digits), Len(sd.digits), sd.decpt)

\* repr(x) of a float
FloatRepr(x) ==
    (IF x.neg THEN <<"-">> ELSE <<>>) \o
    (IF x.cls = "nan" THEN <<"n", "a", "n">>
     ELSE IF x.cls = "inf" THEN <<"i", "n", "f">>
     ELSE IF x.m = <<>> THEN <<"0", ".", "0">>
     ELSE ReprFinite(Shortest(x)))


(***************************************************************************)
(* The adapter.  Bounds of the model: the number of tool calls the host    *)
(* runs concurrently and the largest token id it passes.                   *)
(***************************************************************************)
MaxCalls == 2

MaxTokenId == 1

Calls == 1..MaxCalls

\* "0xA0f0b923532fdbcd85A11ccAED1362691C7931fA"
AUCTION_CONTRACT_ADDRESS ==
    <<"0", "x", "A", "0", "f", "0", "b", "9", "2", "3", "5", "3", "2", "f",
      "d", "b", "c", "d", "8", "5", "A", "1", "1", "c", "c", "A", "E", "D",
      "1", "3", "6", "2", "6", "9", "1", "C", "7", "9", "3", "1", "f", "A">>

AUCTION_ABI == "AUCTION_ABI"

\* an invocation built without the value keyword
NoValue == [none |-> TRUE]

\* "0x123abc"
NftAddress ==
    <<"0", "x", "1", "2", "3", "a", "b", "c">>

\* "0xabc"
HashAbc ==
    <<"0", "x", "a", "b", "c">>

\* "0xdef"
HashDef ==
    <<"0", "x", "d", "e", "f">>

\* "link"
LinkStr ==
    <<"l", "i", "n", "k">>

\* "insufficient funds"
MsgFunds ==
    <<"i", "n", "s", "u", "f", "f", "i", "c", "i", "e", "n", "t", " ", "f", "u", "n",
      "d", "s">>

\* "execution reverted"
MsgRevert ==
    <<"e", "x", "e", "c", "u", "t", "i", "o", "n", " ", "r", "e", "v", "e", "r", "t",
      "e", "d">>

\* "Error creating auction: "
StartErrorPrefix ==
    <<"E", "r", "r", "o", "r", " ", "c", "r", "e", "a", "t", "i", "n", "g", " ", "a",
      "u", "c", "t", "i", "o", "n", ":", " ">>

\* "Error placing bid: "
BidErrorPrefix ==
    <<"E", "r", "r", "o", "r", " ", "p", "l", "a", "c", "i", "n", "g", " ", "b", "i",
      "d", ":", " ">>

\* "Error finalizing auction: "
FinalizeErrorPrefix ==
    <<"E", "r", "r", "o", "r", " ", "f", "i", "n", "a", "l", "i", "z", "i", "n", "g",
      " ", "a", "u", "c", "t", "i", "o", "n", ":", " ">>

\* "Auction created successfully for token ID "
StartOk1 ==
    <<"A", "u", "c", "t", "i", "o", "n", " ", "c", "r", "e", "a", "t", "e", "d", " ",
      "s", "u", "c", "c", "e", "s", "s", "f", "u", "l", "l", "y", " ", "f", "o", "r",
      " ", "t", "o", "k", "e", "n", " ", "I", "D", " ">>

\* ".\nNFT Contract: "
StartOk2 ==
    <<".", "\n", "N", "F", "T", " ", "C", "o", "n", "t", "r", "a", "c", "t", ":", " ">>

\* "\nStarting price: "
StartOk3 ==
    <<"\n", "S", "t", "a", "r", "t", "i", "n", "g", " ", "p", "r", "i", "c", "e", ":",
      " ">>

\* " ETH\nDuration: "
StartOk4 ==
    <<" ", "E", "T", "H", "\n", "D", "u", "r", "a", "t", "i", "o", "n", ":", " ">>

\* " seconds\nTransaction hash: "
StartOk5 ==
    <<" ", "s", "e", "c", "o", "n", "d", "s", "\n", "T", "r", "a", "n", "s", "a", "c",
      "t", "i", "o", "n", " ", "h", "a", "s", "h", ":", " ">>

\* "\nTransaction link: "
TxLinkLabel ==
    <<"\n", "T", "r", "a", "n", "s", "a", "c", "t", "i", "o", "n", " ", "l", "i", "n",
      "k", ":", " ">>

\* "Bid placed on token ID "
BidOk1 ==
    <<"B", "i", "d", " ", "p", "l", "a", "c", "e", "d", " ", "o", "n", " ", "t", "o",
      "k", "e", "n", " ", "I", "D", " ">>

\* " with amount "
BidOk2 ==
    <<" ", "w", "i", "t", "h", " ", "a", "m", "o", "u", "n", "t", " ">>

\* " ETH.\nTransaction hash: "
BidOk3 ==
    <<" ", "E", "T", "H", ".", "\n", "T", "r", "a", "n", "s", "a", "c", "t", "i", "o",
      "n", " ", "h", "a", "s", "h", ":", " ">>

\* "Auction finalized for token ID "
FinalizeOk1 ==
    <<"A", "u", "c", "t", "i", "o", "n", " ", "f", "i", "n", "a", "l", "i", "z", "e",
      "d", " ", "f", "o", "r", " ", "t", "o", "k", "e", "n", " ", "I", "D", " ">>

\* ".\nTransaction hash: "
FinalizeOk2 ==
    <<".", "\n", "T", "r", "a", "n", "s", "a", "c", "t", "i", "o", "n", " ", "h", "a",
      "s", "h", ":", " ">>

(***************************************************************************)
(* The floats the host passes as prices and bids: the literals 0.0, 0.1,   *)
(* 0.5, 1.1, 4.35 and -0.5, 2.0**1000, and the infinity and NaN that the   *)
(* float fields of the input schemas accept.                               *)
(***************************************************************************)
Zero == FZero(FALSE)

Tenth == ParseFloat(FALSE, BFromInt(1), -1)

Half == ParseFloat(FALSE, BFromInt(5), -1)

OnePointOne == ParseFloat(FALSE, BFromInt(11), -1)

FourPoint35 == ParseFloat(FALSE, BFromInt(435), -2)

MinusHalf == ParseFloat(TRUE, BFromInt(5), -1)

Huge == [cls |-> "fin", neg |-> FALSE, m |-> BShl(BOne, 52), e |-> 948]

Amounts == {Zero, Tenth, Half, OnePointOne, FourPoint35, MinusHalf, Huge, FInf(FALSE), FNaN}

TokenIds == -1..MaxTokenId

Durations == {-60, 0, 86400}

\* What the host passes and what the wallet may answer.
SequentialHost ==
    [calls |-> {1}, amounts |-> Amounts, tokens |-> TokenIds, durations |-> Durations,
     hashes |-> {HashAbc, HashDef}, links |-> {LinkStr}, errors |-> {MsgFunds, MsgRevert}]

ConcurrentHost ==
    [calls |-> Calls, amounts |-> {Half}, tokens |-> {1}, durations |-> {86400},
     hashes |-> {HashAbc, HashDef}, links |-> {LinkStr}, errors |-> {MsgRevert}]

VARIABLES
    env,     \* the host's calls and argument values, the wallet's possible answers
    fn,      \* per call: the tool function called
    args,    \* per call: its arguments
    pc,      \* per call: idle, called, waiting (blocked in wait()), returned, raised
    inv,     \* per call: the pending invocation invoke_contract returned (index in wallet)
    ret,     \* per call: the string returned
    exc,     \* per call: the exception that left the function
    wallet   \* the wallet capability: every invocation submitted to it, in order

vars == <<env, fn, args, pc, inv, ret, exc, wallet>>

NoArgs == [none |-> TRUE]

InitCalls ==
    /\ fn = [c \in Calls |-> "none"]
    /\ args = [c \in Calls |-> NoArgs]
    /\ pc = [c \in Calls |-> "idle"]
    /\ inv = [c \in Calls |-> 0]
    /\ ret = [c \in Calls |-> <<>>]
    /\ exc = [c \in Calls |-> "none"]
    /\ wallet = <<>>

Init == env = SequentialHost /\ InitCalls

InitConcurrent == env = ConcurrentHost /\ InitCalls

\* int(amount * 10**18)
EthToWei(amount) == PyInt(FMul(amount, IntToFloat(BPow10(18))))


(***************************************************************************)
(* The host (the agent's tool node) calls a tool function with arguments   *)
(* that passed the function's input schema, which checks types only.       *)
(* Calls are numbered in their order of arrival.                           *)
(***************************************************************************)
Enter(c, f, a) ==
    /\ c \in env.calls
    /\ pc[c] = "idle"
    /\ IF c = 1 THEN TRUE ELSE pc[c - 1] # "idle"
    /\ fn' = [fn EXCEPT ![c] = f]
    /\ args' = [args EXCEPT ![c] = a]
    /\ pc' = [pc EXCEPT ![c] = "called"]
    /\ UNCHANGED <<env, inv, ret, exc, wallet>>

startNftAuctionTool(c) ==
    \E t \in env.tokens, p \in env.amounts, d \in env.durations :
        Enter(c, "start_nft_auction",
              [nft_contract_address |-> NftAddress, token_id |-> t,
               starting_price |-> p, duration |-> d])

bidOnNftTool(c) ==
    \E t \in env.tokens, b \in env.amounts :
        Enter(c, "bid_on_nft", [token_id |-> t, bid_amount |-> b])

finalizeAuctionTool(c) ==
    \E t \in env.tokens :
        Enter(c, "finalize_nft_auction", [token_id |-> t])

(***************************************************************************)
(* The wallet capability.  invoke_contract records the invocation and      *)
(* returns it pending, or raises; a pending invocation settles with a      *)
(* transaction hash and link, or fails, and wait() returns or raises       *)
(* accordingly.  by is the call that submitted the invocation.             *)
(***************************************************************************)
Entry(c, invocation, status, error) ==
    [by |-> c, invocation |-> invocation, status |-> status, error |-> error,
     transaction_hash |-> <<>>, transaction_link |-> <<>>]

\* invoke_contract returns the pending invocation
Accepted(c, invocation) ==
    /\ wallet' = Append(wallet, Entry(c, invocation, "pending", <<>>))
    /\ inv' = [inv EXCEPT ![c] = Len(wallet) + 1]
    /\ pc' = [pc EXCEPT ![c] = "waiting"]
    /\ UNCHANGED <<ret, exc>>

\* invoke_contract raises an exception with message m
Rejected(c, invocation, m) ==
    /\ wallet' = Append(wallet, Entry(c, invocation, "rejected", m))
    /\ UNCHANGED inv

\* the pending invocation i settles, or fails
Settle(i) ==
    /\ wallet[i].status = "pending"
    /\ \/ \E h \in env.hashes, l \in env.links :
            wallet' = [wallet EXCEPT ![i].status = "complete",
                                     ![i].transaction_hash = h,
                                     ![i].transaction_link = l]
       \/ \E m \in env.errors :
            wallet' = [wallet EXCEPT ![i].status = "failed", ![i].error = m]
    /\ UNCHANGED <<env, fn, args, pc, inv, ret, exc>>

(***************************************************************************)
(* The three tool functions.  Each is two steps: up to the return of       *)
(* invoke_contract, and from the return of wait().                         *)
(***************************************************************************)
\* return s
Return(c, s) ==
    /\ pc' = [pc EXCEPT ![c] = "returned"]
    /\ ret' = [ret EXCEPT ![c] = s]
    /\ UNCHANGED exc

\* except Exception as e: return f"<prefix>{str(e)}"
Catch(c, prefix, m) == Return(c, prefix \o m)

\* an exception leaves the function
Raise(c, e) ==
    /\ pc' = [pc EXCEPT ![c] = "raised"]
    /\ exc' = [exc EXCEPT ![c] = e]
    /\ UNCHANGED ret

\* StartInvocation sent to the NFT contract the caller named
StartInvocationToNftContract(a, wei) ==
    [contract_address |-> a.nft_contract_address,
     method |-> "createAuction",
     args |-> [nftContract |-> a.nft_contract_address, tokenId |-> a.token_id,
               startingPrice |-> wei, duration |-> a.duration],
     abi |-> AUCTION_ABI,
     value |-> NoValue]

StartInvocation(a, wei) ==
    [contract_address |-> AUCTION_CONTRACT_ADDRESS,
     method |-> "createAuction",
     args |-> [nftContract |-> a.nft_contract_address, tokenId |-> a.token_id,
               startingPrice |-> wei, duration |-> a.duration],
     abi |-> AUCTION_ABI,
     value |-> NoValue]

StartSuccess(a, h, l) ==
    StartOk1 \o IntStr(a.token_id) \o StartOk2 \o a.nft_contract_address
    \o StartOk3 \o FloatRepr(a.starting_price) \o StartOk4 \o IntStr(a.duration)
    \o StartOk5 \o h \o TxLinkLabel \o l

\* InvokeContract that submits the invocation again after a rejection
InvokeContractRetry(c, invocation, prefix) ==
    \/ Accepted(c, invocation)
    \/ \E m \in env.errors :
          /\ wallet' = wallet \o <<Entry(c, invocation, "rejected", m),
                                   Entry(c, invocation, "pending", <<>>)>>
          /\ inv' = [inv EXCEPT ![c] = Len(wallet) + 2]
          /\ pc' = [pc EXCEPT ![c] = "waiting"]
          /\ UNCHANGED <<ret, exc>>

\* wallet.invoke_contract(...) inside try: the pending invocation, or the
\* exception caught by the function's except clause
InvokeContract(c, invocation, prefix) ==
    \/ Accepted(c, invocation)
    \/ \E m \in env.errors : Rejected(c, invocation, m) /\ Catch(c, prefix, m)

\* a conversion that raised inside try: nothing reaches the wallet
ConversionFailed(c, prefix, m) == Catch(c, prefix, m) /\ UNCHANGED <<wallet, inv>>

\* StartSubmit with the conversion before the try block
StartSubmitConvertOutside(c, starting_price_wei) ==
    IF starting_price_wei.ok
    THEN InvokeContract(c, StartInvocation(args[c], starting_price_wei.value),
                        StartErrorPrefix)
    ELSE Raise(c, "OverflowError") /\ UNCHANGED <<wallet, inv>>

StartSubmit(c, starting_price_wei) ==
    IF starting_price_wei.ok
    THEN InvokeContract(c, StartInvocation(args[c], starting_price_wei.value),
                        StartErrorPrefix)
    ELSE ConversionFailed(c, StartErrorPrefix, starting_price_wei.msg)

StartInvoke(c) ==
    /\ pc[c] = "called"
    /\ fn[c] = "start_nft_auction"
    /\ StartSubmit(c, EthToWei(args[c].starting_price))
    /\ UNCHANGED <<env, fn, args>>

StartWait(c) ==
    /\ pc[c] = "waiting"
    /\ fn[c] = "start_nft_auction"
    /\ \/ /\ wallet[inv[c]].status = "complete"
          /\ Return(c, StartSuccess(args[c], wallet[inv[c]].transaction_hash,
                                    wallet[inv[c]].transaction_link))
       \/ /\ wallet[inv[c]].status = "failed"
          /\ Catch(c, StartErrorPrefix, wallet[inv[c]].error)
    /\ UNCHANGED <<env, fn, args, inv, wallet>>

start_nft_auction(c) == StartInvoke(c) \/ StartWait(c)

BidInvocation(a, wei) ==
    [contract_address |-> AUCTION_CONTRACT_ADDRESS,
     method |-> "bid",
     args |-> [tokenId |-> a.token_id],
     abi |-> AUCTION_ABI,
     value |-> wei]

BidSuccess(a, h, l) ==
    BidOk1 \o IntStr(a.token_id) \o BidOk2 \o FloatRepr(a.bid_amount)
    \o BidOk3 \o h \o TxLinkLabel \o l

BidSubmit(c, value) ==
    IF value.ok
    THEN InvokeContract(c, BidInvocation(args[c], value.value), BidErrorPrefix)
    ELSE ConversionFailed(c, BidErrorPrefix, value.msg)

BidInvoke(c) ==
    /\ pc[c] = "called"
    /\ fn[c] = "bid_on_nft"
    /\ BidSubmit(c, EthToWei(args[c].bid_amount))
    /\ UNCHANGED <<env, fn, args>>

BidWait(c) ==
    /\ pc[c] = "waiting"
    /\ fn[c] = "bid_on_nft"
    /\ \/ /\ wallet[inv[c]].status = "complete"
          /\ Return(c, BidSuccess(args[c], wallet[inv[c]].transaction_hash,
                                  wallet[inv[c]].transaction_link))
       \/ /\ wallet[inv[c]].status = "failed"
          /\ Catch(c, BidErrorPrefix, wallet[inv[c]].error)
    /\ UNCHANGED <<env, fn, args, inv, wallet>>

bid_on_nft(c) == BidInvoke(c) \/ BidWait(c)

\* FinalizeInvocation with a zero value attached
FinalizeInvocationWithValue(a) ==
    [contract_address |-> AUCTION_CONTRACT_ADDRESS,
     method |-> "finalizeAuction",
     args |-> [tokenId |-> a.token_id],
     abi |-> AUCTION_ABI,
     value |-> Signed(FALSE, <<>>)]

FinalizeInvocation(a) ==
    [contract_address |-> AUCTION_CONTRACT_ADDRESS,
     method |-> "finalizeAuction",
     args |-> [tokenId |-> a.token_id],
     abi |-> AUCTION_ABI,
     value |-> NoValue]

FinalizeSuccess(a, h, l) ==
    FinalizeOk1 \o IntStr(a.token_id) \o FinalizeOk2 \o h \o TxLinkLabel \o l

\* FinalizeInvoke that remembers the tokens already finalized and refuses a second
FinalizeInvokeOnce(c) ==
    /\ pc[c] = "called"
    /\ fn[c] = "finalize_nft_auction"
    /\ IF \E i \in 1..Len(wallet) :
              /\ wallet[i].invocation.method = "finalizeAuction"
              /\ wallet[i].invocation.args.tokenId = args[c].token_id
       THEN Catch(c, FinalizeErrorPrefix, MsgRevert) /\ UNCHANGED <<wallet, inv>>
       ELSE InvokeContract(c, FinalizeInvocation(args[c]), FinalizeErrorPrefix)
    /\ UNCHANGED <<env, fn, args>>

FinalizeInvoke(c) ==
    /\ pc[c] = "called"
    /\ fn[c] = "finalize_nft_auction"
    /\ InvokeContract(c, FinalizeInvocation(args[c]), FinalizeErrorPrefix)
    /\ UNCHANGED <<env, fn, args>>

\* FinalizeWait with wait() outside the try block
FinalizeWaitUncaught(c) ==
    /\ pc[c] = "waiting"
    /\ fn[c] = "finalize_nft_auction"
    /\ \/ /\ wallet[inv[c]].status = "complete"
          /\ Return(c, FinalizeSuccess(args[c], wallet[inv[c]].transaction_hash,
                                       wallet[inv[c]].transaction_link))
       \/ /\ wallet[inv[c]].status = "failed"
          /\ Raise(c, "Exception")
    /\ UNCHANGED <<env, fn, args, inv, wallet>>

FinalizeWait(c) ==
    /\ pc[c] = "waiting"
    /\ fn[c] = "finalize_nft_auction"
    /\ \/ /\ wallet[inv[c]].status = "complete"
          /\ Return(c, FinalizeSuccess(args[c], wallet[inv[c]].transaction_hash,
                                       wallet[inv[c]].transaction_link))
       \/ /\ wallet[inv[c]].status = "failed"
          /\ Catch(c, FinalizeErrorPrefix, wallet[inv[c]].error)
    /\ UNCHANGED <<env, fn, args, inv, wallet>>

finalize_nft_auction(c) == FinalizeInvoke(c) \/ FinalizeWait(c)

\* A KeyboardInterrupt or SystemExit delivered while the call blocks in wait()
\* is no Exception: the except clause lets it through.
Interrupt(c) ==
    /\ pc[c] = "waiting"
    /\ Raise(c, "KeyboardInterrupt")
    /\ UNCHANGED <<env, fn, args, inv, wallet>>

Next ==
    \/ \E c \in Calls :
        \/ startNftAuctionTool(c)
        \/ bidOnNftTool(c)
        \/ finalizeAuctionTool(c)
        \/ start_nft_auction(c)
        \/ bid_on_nft(c)
        \/ finalize_nft_auction(c)
        \/ Interrupt(c)
    \/ \E i \in 1..Len(wallet) : Settle(i)

\* the host runs one tool call
Spec == Init /\ [][Next]_vars

\* the host runs up to MaxCalls tool calls concurrently
SpecConcurrent == InitConcurrent /\ [][Next]_vars


(***************************************************************************)
(* Vocabulary of the claims.                                               *)
(***************************************************************************)
StartsWith(s, p) == Len(s) >= Len(p) /\ SubSeq(s, 1, Len(p)) = p

Contains(s, t) == \E i \in 0..(Len(s) - Len(t)) : SubSeq(s, i + 1, i + Len(t)) = t

\* the invocations call c submitted to the wallet
Submitted(c) == {i \in 1..Len(wallet) : wallet[i].by = c}

\* the call has left its invoke_contract step
Past(c) == pc[c] \in {"waiting", "returned", "raised"}

ErrorPrefix(f) ==
    CASE f = "start_nft_auction" -> StartErrorPrefix
      [] f = "bid_on_nft" -> BidErrorPrefix
      [] f = "finalize_nft_auction" -> FinalizeErrorPrefix

\* the ETH amount of a start or bid call
Amount(c) ==
    IF fn[c] = "start_nft_auction" THEN args[c].starting_price ELSE args[c].bid_amount

\* a natural written in decimal
RECURSIVE BFromDigits(_)
BFromDigits(ds) ==
    IF ds = <<>> THEN <<>>
    ELSE BAdd(BMulSmall(BFromDigits(SubSeq(ds, 1, Len(ds) - 1)), 10),
              BFromInt(ds[Len(ds)]))

\* wait() raised in call c: its invocation failed and the call went on from wait()
WaitRaised(c) == pc[c] = "returned" /\ inv[c] > 0 /\ wallet[inv[c]].status = "failed"

\* invoke_contract raised in call c
InvokeRaised(c) == \E i \in Submitted(c) : wallet[i].status = "rejected"

(***************************************************************************)
(* The claims.                                                             *)
(***************************************************************************)

\* C1: when the wallet raises an exception with message m, in invoke_contract
\* or in wait(), the call raises nothing to its caller and returns a string
\* that begins with its function's error prefix and contains m.  (The only
\* thing that leaves a call is an interrupt, which is no Exception and which
\* the wallet does not raise.)
C1_WalletErrorReturned ==
    \A c \in Calls :
        /\ pc[c] = "raised" => exc[c] = "KeyboardInterrupt"
        /\ \A i \in Submitted(c) :
              wallet[i].status = "rejected" =>
                  /\ pc[c] = "returned"
                  /\ StartsWith(ret[c], ErrorPrefix(fn[c]))
                  /\ Contains(ret[c], wallet[i].error)
        /\ WaitRaised(c) =>
              /\ StartsWith(ret[c], ErrorPrefix(fn[c]))
              /\ Contains(ret[c], wallet[inv[c]].error)

\* a finalize call whose wait() raised "execution reverted"
C1_Witness ==
    \E c \in Calls :
        /\ fn[c] = "finalize_nft_auction"
        /\ WaitRaised(c)
        /\ wallet[inv[c]].error = MsgRevert

\* C5: every finalize_nft_auction(token_id) call submits exactly one invocation:
\* to the fixed auction contract, method "finalizeAuction", arguments exactly
\* {tokenId: token_id}, no value attached.
C5_FinalizeInvocation ==
    \A c \in Calls :
        (fn[c] = "finalize_nft_auction" /\ Past(c)) =>
            /\ Cardinality(Submitted(c)) = 1
            /\ \A i \in Submitted(c) :
                  /\ wallet[i].invocation.contract_address = AUCTION_CONTRACT_ADDRESS
                  /\ wallet[i].invocation.method = "finalizeAuction"
                  /\ wallet[i].invocation.args = [tokenId |-> args[c].token_id]
                  /\ wallet[i].invocation.value = NoValue

\* a finalize call for token 1 that returned after its invocation settled
C5_Witness ==
    \E c \in Calls :
        /\ fn[c] = "finalize_nft_auction"
        /\ args[c].token_id = 1
        /\ pc[c] = "returned"
        /\ inv[c] > 0
        /\ wallet[inv[c]].status = "complete"

\* an amount whose product with 10**18 int() cannot convert: infinite, NaN, or
\* so large that the product overflows to infinity
Unconvertible(x) == x.cls \in {"inf", "nan"} \/ x = Huge

\* C10: in start_nft_auction and bid_on_nft a conversion that fails submits
\* nothing to the wallet and the call returns its error-prefixed string
\* instead of raising; and when wait() fails after invoke_contract succeeded
\* the same error-prefixed string is returned although the invocation was
\* submitted.
C10_ConversionInsideTry ==
    \A c \in Calls :
        (fn[c] \in {"start_nft_auction", "bid_on_nft"} /\ pc[c] \notin {"idle", "called"}) =>
            /\ Unconvertible(Amount(c)) =>
                  /\ Submitted(c) = {}
                  /\ pc[c] = "returned"
                  /\ StartsWith(ret[c], ErrorPrefix(fn[c]))
                  /\ Contains(ret[c], IF Amount(c).cls = "nan" THEN NaNToIntMsg
                                      ELSE InfToIntMsg)
            /\ WaitRaised(c) =>
                  /\ StartsWith(ret[c], ErrorPrefix(fn[c]))
                  /\ Cardinality(Submitted(c)) = 1

\* a start call with an infinite price has returned
C10_Witness ==
    \E c \in Calls :
        /\ fn[c] = "start_nft_auction"
        /\ args[c].starting_price = FInf(FALSE)
        /\ pc[c] = "returned"
        /\ wallet = <<>>

\* floor(|x| * 10^18) for the exact value of the float x
ExactWei(x) ==
    IF x.e >= 0 THEN BShl(BMul(x.m, BPow10(18)), x.e)
    ELSE BShr(BMul(x.m, BPow10(18)), -x.e)

\* floor(d * 10^18) for the decimal d * 10^k
DecimalFloor(d, k) == IF k >= 0 THEN BMul(d, BPow10(k)) ELSE BDivPow10(d, -k).q

DecimalWeiOf(sd) == DecimalFloor(BFromDigits(sd.digits), sd.decpt - Len(sd.digits) + 18)

\* the same for the decimal the float is written as
DecimalWei(x) == IF x.m = <<>> THEN <<>> ELSE DecimalWeiOf(Shortest(x))

\* C2: for every starting price >= 0 the startingPrice of the createAuction
\* invocation is floor(price * 10^18), the exact wei value: taken for the
\* float's exact value, or for the decimal it is written as.
C2_WeiIsExactFloor ==
    \A i \in 1..Len(wallet) :
        (wallet[i].invocation.method = "createAuction"
         /\ ~args[wallet[i].by].starting_price.neg) =>
            wallet[i].invocation.args.startingPrice \in
                {Signed(FALSE, ExactWei(args[wallet[i].by].starting_price)),
                 Signed(FALSE, DecimalWei(args[wallet[i].by].starting_price))}

\* int(x * 10**18) as CPython computes it for the amounts of the model
WeiByPython(x) ==
    CASE x = Zero -> Signed(FALSE, <<>>)
      [] x = Tenth -> Signed(FALSE, BFromDigits(<<1, 0, 0, 0, 0, 0, 0, 0, 0, 0, 0, 0, 0, 0, 0, 0, 0, 0>>))
      [] x = Half -> Signed(FALSE, BFromDigits(<<5, 0, 0, 0, 0, 0, 0, 0, 0, 0, 0, 0, 0, 0, 0, 0, 0, 0>>))
      [] x = OnePointOne -> Signed(FALSE, BFromDigits(<<1, 1, 0, 0, 0, 0, 0, 0, 0, 0, 0, 0, 0, 0, 0, 0, 1, 2, 8>>))
      [] x = FourPoint35 -> Signed(FALSE, BFromDigits(<<4, 3, 4, 9, 9, 9, 9, 9, 9, 9, 9, 9, 9, 9, 9, 9, 4, 8, 8>>))
      [] x = MinusHalf -> Signed(TRUE, BFromDigits(<<5, 0, 0, 0, 0, 0, 0, 0, 0, 0, 0, 0, 0, 0, 0, 0, 0, 0>>))

\* bid_amount * 10^18 truncated to an integer: for the float's exact value, or
\* for the decimal it is written as
TruncatedWei(x) == {Signed(x.neg, ExactWei(x)), Signed(x.neg, DecimalWei(x))}

\* C3: every bid_on_nft call submits exactly one invocation, to the auction
\* contract, method "bid", arguments exactly {tokenId: token_id}, value
\* bid_amount * 10^18 truncated to an integer (500000000000000000 for 0.5).
C3_EveryBidSubmitsOne ==
    \A c \in Calls :
        (fn[c] = "bid_on_nft" /\ Past(c)) =>
            /\ Cardinality(Submitted(c)) = 1
            /\ \A i \in Submitted(c) :
                  /\ wallet[i].invocation.contract_address = AUCTION_CONTRACT_ADDRESS
                  /\ wallet[i].invocation.method = "bid"
                  /\ wallet[i].invocation.args = [tokenId |-> args[c].token_id]
                  /\ wallet[i].invocation.value \in TruncatedWei(args[c].bid_amount)

\* the createAuction invocation of a start call with arguments a
ExpectedStart(a) ==
    [contract_address |-> AUCTION_CONTRACT_ADDRESS,
     method |-> "createAuction",
     args |-> [nftContract |-> a.nft_contract_address, tokenId |-> a.token_id,
               startingPrice |-> WeiByPython(a.starting_price), duration |-> a.duration],
     abi |-> AUCTION_ABI,
     value |-> NoValue]

\* C4 as stated: every start_nft_auction call submits exactly one invocation: to
\* the fixed auction contract, method "createAuction", arguments {nftContract,
\* tokenId, startingPrice: wei(starting_price), duration}, no value.
C4_EveryStartSubmitsOne ==
    \A c \in Calls :
        (fn[c] = "start_nft_auction" /\ Past(c)) =>
            /\ Cardinality(Submitted(c)) = 1
            /\ \A i \in Submitted(c) : wallet[i].invocation = ExpectedStart(args[c])

\* C4 amended: a start_nft_auction call whose starting_price * 10**18 is finite
\* submits exactly one invocation: to the fixed auction contract and not the
\* caller's NFT address, method "createAuction", arguments {nftContract,
\* tokenId, startingPrice: int(starting_price * 10**18), duration}, no value;
\* a call whose product is infinite or NaN submits none.
C4_StartInvocation ==
    \A c \in Calls :
        (fn[c] = "start_nft_auction" /\ Past(c)) =>
            IF Unconvertible(args[c].starting_price) THEN Submitted(c) = {}
            ELSE /\ Cardinality(Submitted(c)) = 1
                 /\ \A i \in Submitted(c) :
                       /\ wallet[i].invocation = ExpectedStart(args[c])
                       /\ wallet[i].invocation.contract_address # args[c].nft_contract_address

\* start_nft_auction(addr, 1, 0.1, 86400) has submitted its invocation
C4_Witness ==
    \E c \in Calls :
        /\ fn[c] = "start_nft_auction"
        /\ args[c].token_id = 1
        /\ args[c].starting_price = Tenth
        /\ args[c].duration = 86400
        /\ Cardinality(Submitted(c)) = 1

\* what the wallet answered to the invocations of call c
Answer(c) ==
    {[status |-> wallet[i].status, error |-> wallet[i].error,
      transaction_hash |-> wallet[i].transaction_hash,
      transaction_link |-> wallet[i].transaction_link] : i \in Submitted(c)}

\* the call returned after its invocation settled
Succeeded(c) == pc[c] = "returned" /\ inv[c] > 0 /\ wallet[inv[c]].status = "complete"

\* C6: the adapter keeps no state across calls.  In any interleaving every
\* call submits its own invocation, whatever calls came before it (none only
\* when its own amount cannot be converted); two calls of
\* the same function with the same arguments that got the same answer from
\* the wallet return the same string; and a call whose invocation settled
\* returns a success string with its own transaction hash, also when it is
\* the second finalize for a token or a bid or finalize with no start before.
C6_NoLocalState ==
    /\ \A c \in Calls :
          /\ Past(c) =>
                IF fn[c] # "finalize_nft_auction" /\ Unconvertible(Amount(c))
                THEN Submitted(c) = {}
                ELSE \E i \in 1..Len(wallet) : Submitted(c) = {i}
          /\ Succeeded(c) =>
                /\ ~StartsWith(ret[c], ErrorPrefix(fn[c]))
                /\ Contains(ret[c], wallet[inv[c]].transaction_hash)
    /\ \A c, d \in Calls :
          (/\ pc[c] = "returned" /\ pc[d] = "returned"
           /\ fn[c] = fn[d] /\ args[c] = args[d]
           /\ Answer(c) = Answer(d)) => ret[c] = ret[d]

\* two finalize calls for the same token both returned success, from two
\* invocations, with no start before them
C6_Witness ==
    \E c, d \in Calls :
        /\ c # d
        /\ fn[c] = "finalize_nft_auction" /\ fn[d] = "finalize_nft_auction"
        /\ args[c] = args[d]
        /\ Succeeded(c) /\ Succeeded(d)
        /\ inv[c] # inv[d]
        /\ ~StartsWith(ret[c], FinalizeErrorPrefix)
        /\ ~StartsWith(ret[d], FinalizeErrorPrefix)
        /\ \A i \in 1..Len(wallet) : wallet[i].invocation.method = "finalizeAuction"

\* the starting price as the caller wrote it
AsGiven(x) ==
    CASE x = Zero -> <<"0", ".", "0">>
      [] x = Tenth -> <<"0", ".", "1">>
      [] x = Half -> <<"0", ".", "5">>
      [] x = OnePointOne -> <<"1", ".", "1">>
      [] x = FourPoint35 -> <<"4", ".", "3", "5">>
      [] x = MinusHalf -> <<"-", "0", ".", "5">>

\* C7: when invoke_contract and wait() both succeed and the invocation carries
\* hash h and link l, start_nft_auction returns a string that is not
\* error-prefixed and contains the token id, the starting price as the caller
\* gave it followed by " ETH", the duration followed by " seconds", h and l;
\* start_nft_auction(addr, 1, 0.1, 86400) with hash "0xabc" and link "link"
\* contains "token ID 1", "0.1 ETH", "86400 seconds", "0xabc" and "link".
C7_StartSuccessString ==
    \A c \in Calls :
        (fn[c] = "start_nft_auction" /\ Succeeded(c)) =>
            /\ ~StartsWith(ret[c], StartErrorPrefix)
            /\ Contains(ret[c], <<"t", "o", "k", "e", "n", " ", "I", "D", " ">> \o IntStr(args[c].token_id))
            /\ Contains(ret[c], AsGiven(args[c].starting_price) \o <<" ", "E", "T", "H">>)
            /\ Contains(ret[c], IntStr(args[c].duration) \o <<" ", "s", "e", "c", "o", "n", "d", "s">>)
            /\ Contains(ret[c], wallet[inv[c]].transaction_hash)
            /\ Contains(ret[c], wallet[inv[c]].transaction_link)
            /\ (/\ args[c].token_id = 1
                /\ args[c].starting_price = Tenth
                /\ args[c].duration = 86400
                /\ wallet[inv[c]].transaction_hash = <<"0", "x", "a", "b", "c">>) =>
                    /\ Contains(ret[c], <<"t", "o", "k", "e", "n", " ", "I", "D", " ", "1">>)
                    /\ Contains(ret[c], <<"0", ".", "1", " ", "E", "T", "H">>)
                    /\ Contains(ret[c], <<"8", "6", "4", "0", "0", " ", "s", "e", "c", "o", "n", "d", "s">>)
                    /\ Contains(ret[c], <<"0", "x", "a", "b", "c">>)
                    /\ Contains(ret[c], <<"l", "i", "n", "k">>)

\* start_nft_auction(addr, 1, 0.1, 86400) returned after its invocation settled
\* with hash "0xabc" and link "link"
C7_Witness ==
    \E c \in Calls :
        /\ fn[c] = "start_nft_auction"
        /\ Succeeded(c)
        /\ args[c].token_id = 1
        /\ args[c].starting_price = Tenth
        /\ args[c].duration = 86400
        /\ wallet[inv[c]].transaction_hash = <<"0", "x", "a", "b", "c">>
        /\ wallet[inv[c]].transaction_link = <<"l", "i", "n", "k">>

\* C8: every createAuction invocation submitted to the wallet has duration > 0,
\* tokenId >= 0 and startingPrice >= 0: a call with a duration <= 0 or a
\* negative token id does not reach the wallet with those values.
C8_InvocationsWithinConstraints ==
    \A i \in 1..Len(wallet) :
        wallet[i].invocation.method = "createAuction" =>
            /\ wallet[i].invocation.args.duration > 0
            /\ wallet[i].invocation.args.tokenId >= 0
            /\ ~(wallet[i].invocation.args.startingPrice.neg
                 /\ wallet[i].invocation.args.startingPrice.mag # <<>>)

\* C9: in one call the events are ordered invoke_contract, wait(), return.  A
\* call returns from wait() only once its invocation has settled or failed,
\* and returns a success string only for its own settled invocation; a call
\* submits at most one invocation, and none once invoke_contract has returned
\* or raised, so that nothing is retried.
C9_InvokeWaitReturn ==
    [][\A c \in Calls :
          /\ (pc[c] = "waiting" /\ pc'[c] = "returned") =>
                wallet[inv[c]].status \in {"complete", "failed"}
          /\ (/\ pc[c] # "returned" /\ pc'[c] = "returned"
              /\ ~StartsWith(ret'[c], ErrorPrefix(fn[c]))) =>
                /\ pc[c] = "waiting"
                /\ wallet[inv[c]].by = c
                /\ wallet[inv[c]].status = "complete"
          /\ Cardinality(Submitted(c)') <= 1
          /\ Past(c) => Submitted(c)' = Submitted(c)
          /\ pc[c] \in {"returned", "raised"} => pc'[c] = pc[c] /\ ret'[c] = ret[c]
      ]_vars

\* one call returned success after its invocation settled, and another returned
\* after invoke_contract raised, having submitted that one invocation only
C9_Witness ==
    \E c, d \in Calls :
        /\ Succeeded(c)
        /\ ~StartsWith(ret[c], ErrorPrefix(fn[c]))
        /\ pc[d] = "returned"
        /\ InvokeRaised(d)
        /\ Cardinality(Submitted(d)) = 1

=============================================================================
